---- MODULE Spec2Model ----
(***************************************************************************)
(* Model of 0x02-redis_basic/exercise.py: a Cache over one Redis database, *)
(* the count_calls and call_history decorators of Cache.store, and the     *)
(* typed retrievals.                                                       *)
(*                                                                         *)
(* Text (str) is a sequence of Unicode code points, bytes a sequence of    *)
(* numbers 0..255.  A Python value is a record [kind, s, n]: s carries the *)
(* text or the bytes, n the number (a float is held in tenths).            *)
(***************************************************************************)
EXTENDS Integers, Sequences, FiniteSets, TLC

\* ------------------------------------------------------------------ bounds
\* Number of store calls made over a behaviour.
MaxCalls == 2
\* Number of distinct uuid4 results available to the generator.
MaxKeys == 2
\* Number of Cache constructions over a behaviour (the first one is Init).
MaxCaches == 3
\* Number of Redis commands that fail (connection lost) over a behaviour.
MaxFaults == 1
\* Number of store calls that may be in flight at once in SpecConc.
NumCallers == 2

\* ------------------------------------------------------------ Python values
PyStr(s) == [kind |-> "str", s |-> s, n |-> 0]
PyBytes(b) == [kind |-> "bytes", s |-> b, n |-> 0]
PyInt(i) == [kind |-> "int", s |-> <<>>, n |-> i]
\* A float with one decimal, held in tenths: PyFloat(15) is 1.5.
PyFloat(t) == [kind |-> "float", s |-> <<>>, n |-> t]
\* None.
PyNone == [kind |-> "none", s |-> <<>>, n |-> 0]
\* The outcome of an expression that raised.
Raised == [kind |-> "raise", s |-> <<>>, n |-> 0]

\* The inputs store is called with: a text with a non-ASCII letter and a
\* quote (e-acute, '), a lone surrogate (not encodable), b'\xff' (not
\* UTF-8), -7 and 1.5.
Values ==
    { PyStr(<<233, 39>>), PyStr(<<55296>>), PyBytes(<<255>>), PyInt(-7), PyFloat(15) }

\* -------------------------------------------------------------- text helpers
Abs(i) == IF i < 0 THEN -i ELSE i

RECURSIVE Digits(_)
\* The decimal digits of a natural number, as code points.
Digits(m) == IF m < 10 THEN <<48 + m>> ELSE Digits(m \div 10) \o <<48 + (m % 10)>>

\* One hexadecimal digit, lower case.
HexDigit(d) == IF d < 10 THEN 48 + d ELSE 87 + d

\* repr() of an int.
ReprInt(i) == IF i < 0 THEN <<45>> \o Digits(-i) ELSE Digits(i)

\* repr() of a float with one decimal, given in tenths.
ReprFloat(t) ==
    (IF t < 0 THEN <<45>> ELSE <<>>)
        \o Digits(Abs(t) \div 10) \o <<46>> \o Digits(Abs(t) % 10)

Has(s, c) == \E i \in 1..Len(s) : s[i] = c

\* The quote repr() picks: " when the text holds a ' and no ", else '.
ReprQuote(s) == IF Has(s, 39) /\ ~Has(s, 34) THEN 34 ELSE 39

\* repr() escape of one code point of a str, inside quote q.
ReprStrChar(c, q) ==
    IF c = 92 \/ c = q THEN <<92, c>>
    ELSE IF c = 10 THEN <<92, 110>>
    ELSE IF c = 13 THEN <<92, 114>>
    ELSE IF c = 9 THEN <<92, 116>>
    ELSE IF c < 32 \/ (c >= 127 /\ c <= 160) \/ c = 173
        THEN <<92, 120, HexDigit(c \div 16), HexDigit(c % 16)>>
    ELSE IF c >= 55296 /\ c <= 57343
        THEN <<92, 117, HexDigit(c \div 4096), HexDigit((c \div 256) % 16),
               HexDigit((c \div 16) % 16), HexDigit(c % 16)>>
    ELSE <<c>>

\* repr() escape of one byte of a bytes object, inside quote q.
ReprByte(b, q) ==
    IF b = 92 \/ b = q THEN <<92, b>>
    ELSE IF b = 10 THEN <<92, 110>>
    ELSE IF b = 13 THEN <<92, 114>>
    ELSE IF b = 9 THEN <<92, 116>>
    ELSE IF b < 32 \/ b >= 127
        THEN <<92, 120, HexDigit(b \div 16), HexDigit(b % 16)>>
    ELSE <<b>>

RECURSIVE ReprStrBody(_, _)
ReprStrBody(s, q) ==
    IF s = <<>> THEN <<>> ELSE ReprStrChar(Head(s), q) \o ReprStrBody(Tail(s), q)

RECURSIVE ReprBytesBody(_, _)
ReprBytesBody(b, q) ==
    IF b = <<>> THEN <<>> ELSE ReprByte(Head(b), q) \o ReprBytesBody(Tail(b), q)

\* repr() of a value of one of the kinds store accepts.
Repr(v) ==
    CASE v.kind = "str" ->
           <<ReprQuote(v.s)>> \o ReprStrBody(v.s, ReprQuote(v.s)) \o <<ReprQuote(v.s)>>
      [] v.kind = "bytes" ->
           <<98, ReprQuote(v.s)>> \o ReprBytesBody(v.s, ReprQuote(v.s))
               \o <<ReprQuote(v.s)>>
      [] v.kind = "int" -> ReprInt(v.n)
      [] v.kind = "float" -> ReprFloat(v.n)
      [] OTHER -> <<78, 111, 110, 101>>

\* str(args) of the positional-argument tuple: "()" or "(<repr>,)".
StrArgs(args) ==
    IF args = <<>> THEN <<40, 41>> ELSE <<40>> \o Repr(args[1]) \o <<44, 41>>

\* ------------------------------------------------------------------- UTF-8
\* A text str.encode("utf-8") accepts: no surrogate code point.
Encodable(s) == \A i \in 1..Len(s) : ~(s[i] >= 55296 /\ s[i] <= 57343)

Utf8Char(c) ==
    IF c < 128 THEN <<c>>
    ELSE IF c < 2048 THEN <<192 + (c \div 64), 128 + (c % 64)>>
    ELSE IF c < 65536
        THEN <<224 + (c \div 4096), 128 + ((c \div 64) % 64), 128 + (c % 64)>>
    ELSE <<240 + (c \div 262144), 128 + ((c \div 4096) % 64),
           128 + ((c \div 64) % 64), 128 + (c % 64)>>

RECURSIVE Utf8Encode(_)
\* s.encode("utf-8") of an encodable text.
Utf8Encode(s) == IF s = <<>> THEN <<>> ELSE Utf8Char(Head(s)) \o Utf8Encode(Tail(s))

IsCont(b) == b >= 128 /\ b < 192

\* Number of bytes of the UTF-8 sequence that starts b, 0 when none does.
Utf8Width(b) ==
    IF Len(b) >= 1 /\ b[1] < 128 THEN 1
    ELSE IF Len(b) >= 2 /\ b[1] >= 194 /\ b[1] < 224 /\ IsCont(b[2]) THEN 2
    ELSE IF Len(b) >= 3 /\ b[1] >= 224 /\ b[1] < 240 /\ IsCont(b[2]) /\ IsCont(b[3])
            /\ (b[1] - 224) * 4096 + (b[2] - 128) * 64 + (b[3] - 128) >= 2048
            /\ ~( (b[1] - 224) * 4096 + (b[2] - 128) * 64 + (b[3] - 128) >= 55296
                  /\ (b[1] - 224) * 4096 + (b[2] - 128) * 64 + (b[3] - 128) <= 57343 )
        THEN 3
    ELSE 0

Utf8Point(b, w) ==
    IF w = 1 THEN b[1]
    ELSE IF w = 2 THEN (b[1] - 192) * 64 + (b[2] - 128)
    ELSE (b[1] - 224) * 4096 + (b[2] - 128) * 64 + (b[3] - 128)

RECURSIVE Decodable(_)
\* b.decode("utf-8") does not raise (code points below 65536).
Decodable(b) ==
    IF b = <<>> THEN TRUE
    ELSE Utf8Width(b) > 0 /\ Decodable(SubSeq(b, Utf8Width(b) + 1, Len(b)))

RECURSIVE Utf8Decode(_)
\* b.decode("utf-8") of decodable bytes.
Utf8Decode(b) ==
    IF b = <<>> THEN <<>>
    ELSE <<Utf8Point(b, Utf8Width(b))>>
             \o Utf8Decode(SubSeq(b, Utf8Width(b) + 1, Len(b)))

\* ------------------------------------------------------------ int(<bytes>)
IsDigit(c) == c >= 48 /\ c <= 57

IsSpace(c) == c = 32 \/ (c >= 9 /\ c <= 13)

RECURSIVE Strip(_)
\* b.strip(): int() ignores surrounding whitespace.
Strip(b) ==
    IF b = <<>> THEN b
    ELSE IF IsSpace(b[1]) THEN Strip(Tail(b))
    ELSE IF IsSpace(b[Len(b)]) THEN Strip(SubSeq(b, 1, Len(b) - 1))
    ELSE b

\* The literals int() accepts: an optional sign, then one or more digits.
IsIntLiteral(b) ==
    LET t == Strip(b)
        d == IF Len(t) >= 1 /\ (t[1] = 45 \/ t[1] = 43) THEN Tail(t) ELSE t
    IN  Len(d) >= 1 /\ \A i \in 1..Len(d) : IsDigit(d[i])

RECURSIVE DigitsValue(_)
DigitsValue(d) ==
    IF d = <<>> THEN 0
    ELSE 10 * DigitsValue(SubSeq(d, 1, Len(d) - 1)) + (d[Len(d)] - 48)

\* int(b) for bytes int() accepts.
ParseInt(b) ==
    LET t == Strip(b)
    IN  IF t[1] = 45 THEN -DigitsValue(Tail(t))
        ELSE IF t[1] = 43 THEN DigitsValue(Tail(t))
        ELSE DigitsValue(t)

\* ------------------------------------------------------------------- Redis
\* What redis-py sends for a value: bytes as they are, an int or a float as
\* its repr(), a str encoded as UTF-8.
Encodes(v) ==
    \/ v.kind \in {"bytes", "int", "float"}
    \/ v.kind = "str" /\ Encodable(v.s)

Encode(v) ==
    CASE v.kind = "bytes" -> v.s
      [] v.kind = "int" -> Utf8Encode(ReprInt(v.n))
      [] v.kind = "float" -> Utf8Encode(ReprFloat(v.n))
      [] OTHER -> Utf8Encode(v.s)

\* A database is a function from the keys present to their entries.
EmptyDb == [k \in {} |-> 0]
StringEntry(b) == [type |-> "string", val |-> b, items |-> <<>>]
ListEntry(l) == [type |-> "list", val |-> <<>>, items |-> l]
Put(d, key, e) == [x \in (DOMAIN d) \cup {key} |-> IF x = key THEN e ELSE d[x]]

\* SET key value: replaces whatever the key held.
RedisSet(d, key, b) == Put(d, key, StringEntry(b))

\* GET key: nil for an absent key, WRONGTYPE for a list.
RedisGet(d, key) ==
    IF key \notin DOMAIN d THEN PyNone
    ELSE IF d[key].type = "string" THEN PyBytes(d[key].val)
    ELSE Raised

\* INCR key is accepted: the key is absent or holds an integer literal.
IncrAccepts(d, key) ==
    key \notin DOMAIN d \/ (d[key].type = "string" /\ IsIntLiteral(d[key].val))

\* INCR key: an absent key counts from 0.
RedisIncr(d, key) ==
    Put(d, key,
        StringEntry(Utf8Encode(ReprInt(
            (IF key \in DOMAIN d THEN ParseInt(d[key].val) ELSE 0) + 1))))

\* RPUSH key value is accepted: the key is absent or holds a list.
RpushAccepts(d, key) == key \notin DOMAIN d \/ d[key].type = "list"

\* RPUSH key value: appends at the tail, creating the list.
RedisRpush(d, key, b) ==
    Put(d, key, ListEntry((IF key \in DOMAIN d THEN d[key].items ELSE <<>>) \o <<b>>))

\* FLUSHDB.
RedisFlushdb(d) == EmptyDb

\* ------------------------------------------------------------------- names
\* method.__qualname__ of the decorated method: "Cache.store".
QualName == <<67, 97, 99, 104, 101, 46, 115, 116, 111, 114, 101>>
\* "{}:inputs".format(name)
InputsKey == QualName \o <<58, 105, 110, 112, 117, 116, 115>>
\* "{}:outputs".format(name)
OutputsKey == QualName \o <<58, 111, 117, 116, 112, 117, 116, 115>>
\* str(uuid.uuid4()) of the k-th value of the generator, abbreviated "u<k>".
KeyText(k) == <<117>> \o Digits(k)
\* A key no command ever writes: "nokey".
NoKey == <<110, 111, 107, 101, 121>>

\* The counter, absent read as 0, and the two history logs.
Counter(d) == IF QualName \in DOMAIN d THEN ParseInt(d[QualName].val) ELSE 0
Inputs(d) == IF InputsKey \in DOMAIN d THEN d[InputsKey].items ELSE <<>>
Outputs(d) == IF OutputsKey \in DOMAIN d THEN d[OutputsKey].items ELSE <<>>

\* --------------------------------------------------------------- retrieval
\* Cache.get(key) without a conversion function.
CacheGet(d, key) == RedisGet(d, key)

\* get_str as it would be without the None test: None has no decode.
CacheGetStrNoGuard(d, key) ==
    LET value == CacheGet(d, key)
    IN  IF value.kind = "bytes" /\ Decodable(value.s) THEN PyStr(Utf8Decode(value.s))
        ELSE Raised

\* Cache.get_str(key).
CacheGetStr(d, key) ==
    LET value == CacheGet(d, key)
    IN  IF value.kind = "raise" THEN Raised
        ELSE IF value.kind = "none" THEN PyNone
        ELSE IF Decodable(value.s) THEN PyStr(Utf8Decode(value.s))
        ELSE Raised

\* get_int as it would be if it returned the stored bytes unconverted.
CacheGetIntRaw(d, key) == CacheGet(d, key)

\* Cache.get_int(key).
CacheGetInt(d, key) ==
    LET value == CacheGet(d, key)
    IN  IF value.kind = "raise" THEN Raised
        ELSE IF value.kind = "none" THEN PyNone
        ELSE IF IsIntLiteral(value.s) THEN PyInt(ParseInt(value.s))
        ELSE Raised

\* The conversion functions get is called with: int, str, and
\* lambda d: d.decode("utf-8").
Fns == {"int", "str", "decode"}

\* fn(data) for data as GET returns it: bytes, or None for an absent key.
\* int(None) is a TypeError, str(None) is 'None', None has no decode;
\* str(b) of bytes is their repr.
PyApply(fn, data) ==
    CASE fn = "int" ->
           IF data.kind = "bytes" /\ IsIntLiteral(data.s) THEN PyInt(ParseInt(data.s))
           ELSE Raised
      [] fn = "str" ->
           IF data.kind = "bytes" THEN PyStr(Repr(data)) ELSE PyStr(<<78, 111, 110, 101>>)
      [] fn = "decode" ->
           IF data.kind = "bytes" /\ Decodable(data.s) THEN PyStr(Utf8Decode(data.s))
           ELSE Raised

\* get(key, fn) as it would be if it returned None for an absent key without
\* calling fn.
CacheGetFnGuarded(d, key, fn) ==
    LET data == RedisGet(d, key)
    IN  IF data.kind = "raise" THEN Raised
        ELSE IF data.kind = "none" THEN PyNone
        ELSE PyApply(fn, data)

\* Cache.get(key, fn) with a conversion function: fn(data), whatever GET
\* returned.
CacheGetFn(d, key, fn) ==
    LET data == RedisGet(d, key)
    IN  IF data.kind = "raise" THEN Raised
        ELSE PyApply(fn, data)

\* ------------------------------------------------------------------ replay
\* LRANGE key 0 -1 is accepted: the key is absent or holds a list.
LrangeAccepts(d, key) == key \notin DOMAIN d \/ d[key].type = "list"

\* LRANGE key 0 -1: the whole list, empty for an absent key.
RedisLrange(d, key) == IF key \in DOMAIN d THEN d[key].items ELSE <<>>

Min(a, b) == IF a < b THEN a ELSE b

\* " was called ", " times:", "(*" and ") -> " of the two format strings.
WasCalled == <<32, 119, 97, 115, 32, 99, 97, 108, 108, 101, 100, 32>>
Times == <<32, 116, 105, 109, 101, 115, 58>>
OpenStar == <<40, 42>>
Arrow == <<41, 32, 45, 62, 32>>

\* What was printed, and what was printed before an exception.
Printed(lines) == [kind |-> "printed", s |-> lines, n |-> 0]
PrintedThenRaised(lines) == [kind |-> "raise", s |-> lines, n |-> 0]

\* '{} was called {} times:'.format(name, len(inputs))
ReplayHeader(name, inputs) == name \o WasCalled \o Digits(Len(inputs)) \o Times

\* "{}(*{}) -> {}".format(name, input.decode("utf-8"), output.decode("utf-8"))
ReplayLine(name, input, output) ==
    name \o OpenStar \o Utf8Decode(input) \o Arrow \o Utf8Decode(output)

\* The pairs of zip(inputs, outputs) that print: those before the first
\* entry that does not decode.
PairsPrinted(inputs, outputs) ==
    LET n == Min(Len(inputs), Len(outputs))
        bad == {i \in 1..n : ~Decodable(inputs[i]) \/ ~Decodable(outputs[i])}
    IN  IF bad = {} THEN n ELSE (CHOOSE i \in bad : \A j \in bad : i <= j) - 1

\* replay as it would be if its header showed the call counter.
ReplayOutputCounter(d) ==
    LET inputs == RedisLrange(d, InputsKey)
        outputs == RedisLrange(d, OutputsKey)
    IN  Printed(<<QualName \o WasCalled \o Digits(Counter(d)) \o Times>>
                    \o [i \in 1..Min(Len(inputs), Len(outputs)) |->
                           ReplayLine(QualName, inputs[i], outputs[i])])

\* replay as it would be if it consumed the logs it prints.
ReplayDbPopping(d) ==
    [x \in (DOMAIN d) \ {InputsKey, OutputsKey} |-> d[x]]

\* replay(cache.store): what it prints for the database d.
ReplayOutput(d) ==
    IF ~LrangeAccepts(d, InputsKey) \/ ~LrangeAccepts(d, OutputsKey)
    THEN PrintedThenRaised(<<>>)
    ELSE
        LET inputs == RedisLrange(d, InputsKey)
            outputs == RedisLrange(d, OutputsKey)
            n == PairsPrinted(inputs, outputs)
            lines == <<ReplayHeader(QualName, inputs)>>
                         \o [i \in 1..n |-> ReplayLine(QualName, inputs[i], outputs[i])]
        IN  IF n = Min(Len(inputs), Len(outputs))
            THEN Printed(lines) ELSE PrintedThenRaised(lines)

\* replay(cache.store): the database it leaves.
ReplayDb(d) == d

\* ------------------------------------------------------------------- state
VARIABLES
    db,      \* the Redis database every Cache and every replay connects to
    calls,   \* the store calls made so far, in invocation order
    inBy,    \* for each entry of the inputs log, the call that appended it
    outBy,   \* for each entry of the outputs log, the call that appended it
    epoch,   \* number of Cache objects constructed so far
    faults,  \* number of Redis commands that failed so far
    res      \* the read-only call just made (a retrieval, a replay) and
             \* what it gave

vars == <<db, calls, inBy, outBy, epoch, faults, res>>

\* No retrieval is pending a look.
NoRes == [op |-> "none", key |-> <<>>, out |-> PyNone]

\* What the wrappers test of the receiver: isinstance(self, Cache) and
\* isinstance(self._redis, redis.Redis).
TheCache == [cache |-> TRUE, redis |-> TRUE]
\* The receivers store is called on: a Cache, a Cache whose _redis was
\* replaced by a stand-in that is no redis.Redis, and an object that is no
\* Cache and holds a redis.Redis of the same database.
Receivers == {TheCache, [cache |-> TRUE, redis |-> FALSE], [cache |-> FALSE, redis |-> TRUE]}
Recognized(self) == self.cache /\ self.redis

\* A call of store: its positional arguments, where its thread stands
\* (pc: the command it runs next, or "returned" / "raised"), the command at
\* which it raised, the uuid it drew, the Cache generation it was made in,
\* and the counter and log lengths it found; then the receiver, the value
\* passed (positionally or as data=...) and the database it found.
NewCall(args) ==
    [args |-> args, pc |-> "incr", at |-> "", key |-> 0, epoch |-> epoch,
     cnt0 |-> Counter(db), in0 |-> Len(Inputs(db)), out0 |-> Len(Outputs(db)),
     self |-> TheCache, data |-> IF args = <<>> THEN PyNone ELSE args[1], db0 |-> db]

Running(c) == c.pc \in {"set", "inputs", "outputs"}
InFlight == {i \in 1..Len(calls) : Running(calls[i])}

\* The uuids drawn so far, and the ones uuid4 can still draw: never one it
\* drew before.
Issued == {calls[i].key : i \in 1..Len(calls)} \ {0}
FreshKeys == (1..MaxKeys) \ Issued

\* A command fails when the connection does; at most MaxFaults times.
Fault(ok) == IF ok THEN faults' = faults ELSE faults < MaxFaults /\ faults' = faults + 1

Raise(i, at) == calls' = [calls EXCEPT ![i].pc = "raised", ![i].at = at]
Goto(i, pc) == calls' = [calls EXCEPT ![i].pc = pc]

Init ==
    /\ db = EmptyDb
    /\ calls = <<>>
    /\ inBy = <<>>
    /\ outBy = <<>>
    /\ epoch = 1
    /\ faults = 0
    /\ res = NoRes

\* Construct as it would be with the FLUSHDB left out.
ConstructNoFlush ==
    /\ epoch < MaxCaches
    /\ db' = db
    /\ epoch' = epoch + 1
    /\ inBy' = <<>>
    /\ outBy' = <<>>
    /\ res' = NoRes
    /\ UNCHANGED <<calls, faults>>

\* Cache.__init__: a new connection and FLUSHDB.
Construct ==
    /\ epoch < MaxCaches
    /\ db' = RedisFlushdb(db)
    /\ epoch' = epoch + 1
    /\ inBy' = <<>>
    /\ outBy' = <<>>
    /\ res' = NoRes
    /\ UNCHANGED <<calls, faults>>

\* CountCalls as it would be if the wrapper counted only after the method
\* returned: nothing is counted on the way in.
CountCallsLate(v, ok) ==
    /\ Len(calls) < MaxCalls
    /\ Fault(ok)
    /\ db' = db
    /\ calls' = Append(calls,
                       [NewCall(<<v>>) EXCEPT !.pc = IF ok THEN "set" ELSE "raised",
                                              !.at = IF ok THEN "" ELSE "incr"])
    /\ res' = NoRes
    /\ UNCHANGED <<inBy, outBy, epoch>>

\* CountCallsOn as it would be without the isinstance test: it counts
\* whatever the receiver.
CountCallsOnAny(self, v, kw, ok) ==
    /\ Len(calls) < MaxCalls
    /\ Fault(ok)
    /\ LET c == [NewCall(IF kw THEN <<>> ELSE <<v>>) EXCEPT !.self = self, !.data = v]
       IN  IF ok /\ IncrAccepts(db, QualName)
             THEN /\ db' = RedisIncr(db, QualName)
                  /\ calls' = Append(calls, [c EXCEPT !.pc = "set"])
             ELSE /\ db' = db
                  /\ calls' = Append(calls, [c EXCEPT !.pc = "raised", !.at = "incr"])
    /\ res' = NoRes
    /\ UNCHANGED <<inBy, outBy, epoch>>

\* store(v) or store(data=v) on a receiver enters count_calls.wrapper, which
\* increments the counter, when it recognizes the receiver, before it calls
\* on.
CountCallsOn(self, v, kw, ok) ==
    /\ Len(calls) < MaxCalls
    /\ Fault(ok)
    /\ LET c == [NewCall(IF kw THEN <<>> ELSE <<v>>) EXCEPT !.self = self, !.data = v]
       IN  IF ~Recognized(self)
             THEN /\ ok
                  /\ db' = db
                  /\ calls' = Append(calls, [c EXCEPT !.pc = "set"])
             ELSE IF ok /\ IncrAccepts(db, QualName)
             THEN /\ db' = RedisIncr(db, QualName)
                  /\ calls' = Append(calls, [c EXCEPT !.pc = "set"])
             ELSE /\ db' = db
                  /\ calls' = Append(calls, [c EXCEPT !.pc = "raised", !.at = "incr"])
    /\ res' = NoRes
    /\ UNCHANGED <<inBy, outBy, epoch>>

\* cache.store(v) on a Cache.
CountCalls(v, ok) == CountCallsOn(TheCache, v, FALSE, ok)

\* Store as it would be with a key generator that can repeat itself.
StoreAnyKey(i, k, ok) ==
    /\ calls[i].pc = "set"
    /\ k \in 1..MaxKeys
    /\ IF ~Encodes(calls[i].args[1])
         THEN /\ ok
              /\ db' = db
              /\ Raise(i, "set")
         ELSE IF ~ok
         THEN /\ db' = db
              /\ Raise(i, "set")
         ELSE /\ db' = RedisSet(db, KeyText(k), Encode(calls[i].args[1]))
              /\ calls' = [calls EXCEPT ![i].pc = "inputs", ![i].key = k]
    /\ Fault(ok)
    /\ res' = NoRes
    /\ UNCHANGED <<inBy, outBy, epoch>>

\* call_history.wrapper calls the method: Cache.store draws a uuid and SETs
\* the data under it, through the handle the receiver holds (a stand-in
\* handle takes the value and leaves the database alone).
Store(i, k, ok) ==
    /\ calls[i].pc = "set"
    /\ k \in FreshKeys
    /\ IF ~calls[i].self.redis
         THEN /\ ok
              /\ db' = db
              /\ calls' = [calls EXCEPT ![i].pc = "inputs", ![i].key = k]
         ELSE IF ~Encodes(calls[i].data)
         THEN /\ ok
              /\ db' = db
              /\ Raise(i, "set")
         ELSE IF ~ok
         THEN /\ db' = db
              /\ Raise(i, "set")
         ELSE /\ db' = RedisSet(db, KeyText(k), Encode(calls[i].data))
              /\ calls' = [calls EXCEPT ![i].pc = "inputs", ![i].key = k]
    /\ Fault(ok)
    /\ res' = NoRes
    /\ UNCHANGED <<inBy, outBy, epoch>>

\* RpushInputs as it would be if it logged repr(args[0]) for str(args).
RpushInputsRepr(i, ok) ==
    /\ calls[i].pc = "inputs"
    /\ Fault(ok)
    /\ IF ok /\ RpushAccepts(db, InputsKey)
         THEN /\ db' = RedisRpush(db, InputsKey, Utf8Encode(Repr(calls[i].args[1])))
              /\ inBy' = Append(inBy, i)
              /\ Goto(i, "outputs")
         ELSE /\ db' = db
              /\ inBy' = inBy
              /\ Raise(i, "inputs")
    /\ res' = NoRes
    /\ UNCHANGED <<outBy, epoch>>

\* RpushInputs as it would be if a failed append undid the SET of the call.
RpushInputsUndo(i, ok) ==
    /\ calls[i].pc = "inputs"
    /\ Fault(ok)
    /\ IF ok /\ RpushAccepts(db, InputsKey)
         THEN /\ db' = RedisRpush(db, InputsKey, Utf8Encode(StrArgs(calls[i].args)))
              /\ inBy' = Append(inBy, i)
              /\ Goto(i, "outputs")
         ELSE /\ db' = [x \in (DOMAIN db) \ {KeyText(calls[i].key)} |-> db[x]]
              /\ inBy' = inBy
              /\ Raise(i, "inputs")
    /\ res' = NoRes
    /\ UNCHANGED <<outBy, epoch>>

\* RpushInputs as it would be with lpush for rpush: the entry goes in front.
RpushInputsLpush(i, ok) ==
    /\ calls[i].pc = "inputs"
    /\ Fault(ok)
    /\ IF ~Recognized(calls[i].self)
         THEN /\ ok
              /\ db' = db
              /\ inBy' = inBy
              /\ Goto(i, "returned")
         ELSE IF ok /\ RpushAccepts(db, InputsKey)
         THEN /\ db' = Put(db, InputsKey,
                           ListEntry(<<Utf8Encode(StrArgs(calls[i].args))>> \o Inputs(db)))
              /\ inBy' = <<i>> \o inBy
              /\ Goto(i, "outputs")
         ELSE /\ db' = db
              /\ inBy' = inBy
              /\ Raise(i, "inputs")
    /\ res' = NoRes
    /\ UNCHANGED <<outBy, epoch>>

\* RpushInputs as it would be if the wrapper logged the keyword arguments'
\* values with the positional ones.
RpushInputsKwargs(i, ok) ==
    /\ calls[i].pc = "inputs"
    /\ Fault(ok)
    /\ IF ~Recognized(calls[i].self)
         THEN /\ ok
              /\ db' = db
              /\ inBy' = inBy
              /\ Goto(i, "returned")
         ELSE IF ok /\ RpushAccepts(db, InputsKey)
         THEN /\ db' = RedisRpush(db, InputsKey, Utf8Encode(StrArgs(<<calls[i].data>>)))
              /\ inBy' = Append(inBy, i)
              /\ Goto(i, "outputs")
         ELSE /\ db' = db
              /\ inBy' = inBy
              /\ Raise(i, "inputs")
    /\ res' = NoRes
    /\ UNCHANGED <<outBy, epoch>>

\* call_history.wrapper: rpush(input, str(args)) when it recognizes the
\* receiver, the return when it does not.
RpushInputs(i, ok) ==
    /\ calls[i].pc = "inputs"
    /\ Fault(ok)
    /\ IF ~Recognized(calls[i].self)
         THEN /\ ok
              /\ db' = db
              /\ inBy' = inBy
              /\ Goto(i, "returned")
         ELSE IF ok /\ RpushAccepts(db, InputsKey)
         THEN /\ db' = RedisRpush(db, InputsKey, Utf8Encode(StrArgs(calls[i].args)))
              /\ inBy' = Append(inBy, i)
              /\ Goto(i, "outputs")
         ELSE /\ db' = db
              /\ inBy' = inBy
              /\ Raise(i, "inputs")
    /\ res' = NoRes
    /\ UNCHANGED <<outBy, epoch>>

\* RpushOutputs as it would be if the wrapper returned without the append.
RpushOutputsSkip(i, ok) ==
    /\ calls[i].pc = "outputs"
    /\ Fault(ok)
    /\ db' = db
    /\ outBy' = outBy
    /\ IF ok THEN Goto(i, "returned") ELSE Raise(i, "outputs")
    /\ res' = NoRes
    /\ UNCHANGED <<inBy, epoch>>

\* call_history.wrapper: rpush(output, return_value), then the return.
RpushOutputs(i, ok) ==
    /\ calls[i].pc = "outputs"
    /\ Fault(ok)
    /\ IF ok /\ RpushAccepts(db, OutputsKey)
         THEN /\ db' = RedisRpush(db, OutputsKey, Utf8Encode(KeyText(calls[i].key)))
              /\ outBy' = Append(outBy, i)
              /\ Goto(i, "returned")
         ELSE /\ db' = db
              /\ outBy' = outBy
              /\ Raise(i, "outputs")
    /\ res' = NoRes
    /\ UNCHANGED <<inBy, epoch>>

\* The keys retrievals are tried on: every uuid, the three keys of the
\* instrumentation, and a key nothing writes.
ProbeKeys == {KeyText(k) : k \in 1..MaxKeys} \cup {QualName, InputsKey, OutputsKey, NoKey}

\* Get as it would be if get were decorated with count_calls too.
GetCounted(key) ==
    /\ res' = [op |-> "get", key |-> key, out |-> CacheGet(db, key)]
    /\ db' = RedisIncr(db, QualName)
    /\ UNCHANGED <<calls, inBy, outBy, epoch, faults>>

\* cache.get(key).
Get(key) ==
    /\ res' = [op |-> "get", key |-> key, out |-> CacheGet(db, key)]
    /\ UNCHANGED <<db, calls, inBy, outBy, epoch, faults>>

\* cache.get_str(key).
GetStr(key) ==
    /\ res' = [op |-> "get_str", key |-> key, out |-> CacheGetStr(db, key)]
    /\ UNCHANGED <<db, calls, inBy, outBy, epoch, faults>>

\* cache.get_int(key).
GetInt(key) ==
    /\ res' = [op |-> "get_int", key |-> key, out |-> CacheGetInt(db, key)]
    /\ UNCHANGED <<db, calls, inBy, outBy, epoch, faults>>

\* How a retrieval with a conversion function is named in res.
GetOp(fn) ==
    CASE fn = "int" -> "get(int)"
      [] fn = "str" -> "get(str)"
      [] fn = "decode" -> "get(decode)"

\* cache.get(key, fn).
GetFn(key, fn) ==
    /\ res' = [op |-> GetOp(fn), key |-> key, out |-> CacheGetFn(db, key, fn)]
    /\ UNCHANGED <<db, calls, inBy, outBy, epoch, faults>>

\* replay(cache.store), over a connection of its own to the same database.
Replay(ok) ==
    /\ Fault(ok)
    /\ res' = [op |-> "replay", key |-> QualName,
               out |-> IF ok THEN ReplayOutput(db) ELSE PrintedThenRaised(<<>>)]
    /\ db' = IF ok THEN ReplayDb(db) ELSE db
    /\ UNCHANGED <<calls, inBy, outBy, epoch>>

\* One thread: a call runs to its end before anything else happens, and
\* any Redis command may find the connection lost.
Next ==
    \/ InFlight = {} /\ Construct
    \/ \E v \in Values, ok \in BOOLEAN : InFlight = {} /\ CountCalls(v, ok)
    \/ \E i \in InFlight, k \in 1..MaxKeys, ok \in BOOLEAN : Store(i, k, ok)
    \/ \E i \in InFlight, ok \in BOOLEAN : RpushInputs(i, ok)
    \/ \E i \in InFlight, ok \in BOOLEAN : RpushOutputs(i, ok)

Spec == Init /\ [][Next]_vars

\* One thread that stores and retrieves over a connection that holds.
NextGet ==
    \/ InFlight = {} /\ Construct
    \/ \E v \in Values : InFlight = {} /\ CountCalls(v, TRUE)
    \/ \E i \in InFlight, k \in 1..MaxKeys : Store(i, k, TRUE)
    \/ \E i \in InFlight : RpushInputs(i, TRUE)
    \/ \E i \in InFlight : RpushOutputs(i, TRUE)
    \/ \E key \in ProbeKeys : InFlight = {} /\ res = NoRes /\ Get(key)
    \/ \E key \in ProbeKeys : InFlight = {} /\ res = NoRes /\ GetStr(key)
    \/ \E key \in ProbeKeys : InFlight = {} /\ res = NoRes /\ GetInt(key)

SpecGet == Init /\ [][NextGet]_vars

\* The values concurrent callers store.
ConcValues == {PyStr(<<233>>), PyInt(-7)}

\* Up to NumCallers threads call store on one live Cache; every Redis
\* command is one step.
NextConc ==
    \/ \E v \in ConcValues, ok \in BOOLEAN :
          Cardinality(InFlight) < NumCallers /\ CountCalls(v, ok)
    \/ \E i \in InFlight, k \in 1..MaxKeys, ok \in BOOLEAN : Store(i, k, ok)
    \/ \E i \in InFlight, ok \in BOOLEAN : RpushInputs(i, ok)
    \/ \E i \in InFlight, ok \in BOOLEAN : RpushOutputs(i, ok)

SpecConc == Init /\ [][NextConc]_vars

\* The values of the replay scenario: 'foo' and b'bar'.
ReplayValues == {PyStr(<<102, 111, 111>>), PyBytes(<<98, 97, 114>>)}

\* One thread that stores and replays, twice in a row too; any Redis
\* command may find the connection lost.
NextReplay ==
    \/ InFlight = {} /\ Construct
    \/ \E v \in ReplayValues, ok \in BOOLEAN : InFlight = {} /\ CountCalls(v, ok)
    \/ \E i \in InFlight, k \in 1..MaxKeys, ok \in BOOLEAN : Store(i, k, ok)
    \/ \E i \in InFlight, ok \in BOOLEAN : RpushInputs(i, ok)
    \/ \E i \in InFlight, ok \in BOOLEAN : RpushOutputs(i, ok)
    \/ \E ok \in BOOLEAN : InFlight = {} /\ res.op \in {"none", "replay"} /\ Replay(ok)

SpecReplay == Init /\ [][NextReplay]_vars

\* One thread that calls store on receivers of every kind; any Redis command
\* may find the connection lost.
NextRecv ==
    \/ \E self \in Receivers, v \in ConcValues, ok \in BOOLEAN :
          InFlight = {} /\ CountCallsOn(self, v, FALSE, ok)
    \/ \E i \in InFlight, k \in 1..MaxKeys, ok \in BOOLEAN : Store(i, k, ok)
    \/ \E i \in InFlight, ok \in BOOLEAN : RpushInputs(i, ok)
    \/ \E i \in InFlight, ok \in BOOLEAN : RpushOutputs(i, ok)

SpecRecv == Init /\ [][NextRecv]_vars

\* One thread stores and retrieves while another constructs Caches on the
\* same database: a construction falls between any two commands of a call in
\* flight. The connection holds.
NextRace ==
    \/ InFlight # {} /\ Construct
    \/ \E v \in ConcValues : InFlight = {} /\ CountCalls(v, TRUE)
    \/ \E i \in InFlight, k \in 1..MaxKeys : Store(i, k, TRUE)
    \/ \E i \in InFlight : RpushInputs(i, TRUE)
    \/ \E i \in InFlight : RpushOutputs(i, TRUE)
    \/ \E key \in ProbeKeys : InFlight = {} /\ res = NoRes /\ Get(key)

SpecRace == Init /\ [][NextRace]_vars

\* One thread that stores and retrieves, with and without a conversion
\* function, over a connection that holds.
NextFn ==
    \/ \E v \in Values : InFlight = {} /\ CountCalls(v, TRUE)
    \/ \E i \in InFlight, k \in 1..MaxKeys : Store(i, k, TRUE)
    \/ \E i \in InFlight : RpushInputs(i, TRUE)
    \/ \E i \in InFlight : RpushOutputs(i, TRUE)
    \/ \E key \in ProbeKeys : InFlight = {} /\ res = NoRes /\ Get(key)
    \/ \E key \in ProbeKeys, fn \in Fns : InFlight = {} /\ res = NoRes /\ GetFn(key, fn)

SpecFn == Init /\ [][NextFn]_vars

\* One thread that calls store(v) and store(data=v) on a Cache, over a
\* connection that holds.
NextKw ==
    \/ \E v \in Values, kw \in BOOLEAN : InFlight = {} /\ CountCallsOn(TheCache, v, kw, TRUE)
    \/ \E i \in InFlight, k \in 1..MaxKeys : Store(i, k, TRUE)
    \/ \E i \in InFlight : RpushInputs(i, TRUE)
    \/ \E i \in InFlight : RpushOutputs(i, TRUE)

SpecKw == Init /\ [][NextKw]_vars

\* ------------------------------------------------------- the decorators
\* The two decorators as functions of the database.  A call c is its
\* receiver, its positional arguments, the value passed, the uuid it draws
\* and the command at which the connection is lost ("" for none); what a
\* function gives is the database left, the key returned (0 for none) and
\* the command at which it raised ("" when it returned).
CallOf(self, v, kw, k, f) ==
    [self |-> self, args |-> IF kw THEN <<>> ELSE <<v>>, data |-> v, key |-> k, f |-> f]
Gives(d, ret, at) == [db |-> d, ret |-> ret, at |-> at]
FaultPoints == {"", "incr", "set", "inputs", "outputs"}

\* Cache.store, undecorated.
StoreMethod(d, c) ==
    IF ~c.self.redis THEN Gives(d, c.key, "")
    ELSE IF ~Encodes(c.data) \/ c.f = "set" THEN Gives(d, 0, "set")
    ELSE Gives(RedisSet(d, KeyText(c.key), Encode(c.data)), c.key, "")

\* A method is Cache.store under a stack of decorators, the outermost first:
\* <<>> is the plain method.
RECURSIVE Call(_, _, _)

\* count_calls(method).wrapper: the INCR, then the method.
CountCallsWrapper(method, d, c) ==
    IF ~Recognized(c.self) THEN Call(method, d, c)
    ELSE IF c.f = "incr" \/ ~IncrAccepts(d, QualName) THEN Gives(d, 0, "incr")
    ELSE Call(method, RedisIncr(d, QualName), c)

\* call_history as it would be if it logged the arguments before the call.
CallHistoryWrapperEager(method, d, c) ==
    IF ~Recognized(c.self) THEN Call(method, d, c)
    ELSE IF c.f = "inputs" \/ ~RpushAccepts(d, InputsKey) THEN Gives(d, 0, "inputs")
    ELSE
        LET r == Call(method, RedisRpush(d, InputsKey, Utf8Encode(StrArgs(c.args))), c)
        IN  IF r.at # "" THEN r
            ELSE IF c.f = "outputs" \/ ~RpushAccepts(r.db, OutputsKey)
                THEN Gives(r.db, 0, "outputs")
            ELSE Gives(RedisRpush(r.db, OutputsKey, Utf8Encode(KeyText(r.ret))), r.ret, "")

\* call_history(method).wrapper: the method, then the two RPUSHes.
CallHistoryWrapper(method, d, c) ==
    LET r == Call(method, d, c)
    IN  IF r.at # "" \/ ~Recognized(c.self) THEN r
        ELSE IF c.f = "inputs" \/ ~RpushAccepts(r.db, InputsKey)
            THEN Gives(r.db, 0, "inputs")
        ELSE
            LET d1 == RedisRpush(r.db, InputsKey, Utf8Encode(StrArgs(c.args)))
            IN  IF c.f = "outputs" \/ ~RpushAccepts(d1, OutputsKey)
                    THEN Gives(d1, 0, "outputs")
                ELSE Gives(RedisRpush(d1, OutputsKey, Utf8Encode(KeyText(r.ret))),
                           r.ret, "")

\* method(self, *args, **kwargs): the outermost wrapper runs and calls on.
Call(method, d, c) ==
    IF method = <<>> THEN StoreMethod(d, c)
    ELSE IF Head(method) = "count_calls" THEN CountCallsWrapper(Tail(method), d, c)
    ELSE CallHistoryWrapper(Tail(method), d, c)

\* Cache.store as decorated: @count_calls over @call_history.  functools.wraps
\* hands __qualname__ on, so both wrappers use "Cache.store" in either order.
DecoratedStore(d, c) == Call(<<"count_calls", "call_history">>, d, c)

\* Cache.store with the decorators in the other order.
SwappedStore(d, c) == Call(<<"call_history", "count_calls">>, d, c)

\* ------------------------------------------------------------------ claims
\* The calls made on the live database: since the last Cache construction.
Cur == {i \in 1..Len(calls) : calls[i].epoch = epoch}
\* They are the last ones made; the j-th of them is calls[Before + j].
Before == Len(calls) - Cardinality(Cur)
AllReturned == \A i \in Cur : calls[i].pc = "returned"
NoneRaised == \A i \in Cur : calls[i].pc # "raised"
Last == calls[Len(calls)]
Appenders(by) == {by[j] : j \in 1..Len(by)}

\* C1: after n sequential calls of store that all returned, with no Cache
\* constructed in between, the counter is n and each history log has n
\* entries.
C1_CountsAndLogLengths ==
    AllReturned =>
        /\ Counter(db) = Cardinality(Cur)
        /\ Len(Inputs(db)) = Cardinality(Cur)
        /\ Len(Outputs(db)) = Cardinality(Cur)

C1_Witness ==
    /\ epoch = 2
    /\ Cardinality(Cur) = 2
    /\ AllReturned
    /\ db[QualName].val = <<50>>
    /\ Len(db[InputsKey].items) = 2
    /\ Len(db[OutputsKey].items) = 2

\* C2: for sequential calls of store that all returned, entry j of the
\* inputs log is the text of the argument tuple of the j-th call and entry j
\* of the outputs log is the key the j-th call returned.
C2_EntriesFollowCalls ==
    NoneRaised =>
        \A j \in 1..Cardinality(Cur) :
            calls[Before + j].pc = "returned" =>
                /\ j <= Len(Inputs(db))
                /\ Inputs(db)[j] = Utf8Encode(StrArgs(calls[Before + j].args))
                /\ j <= Len(Outputs(db))
                /\ Outputs(db)[j] = Utf8Encode(KeyText(calls[Before + j].key))

\* store(-7) returned u2, then store("<e-acute>'") returned u1: the logs
\* hold b"(-7,)", b"(\"\xc3\xa9'\",)" and b"u2", b"u1".
C2_Witness ==
    /\ Cardinality(Cur) = 2
    /\ AllReturned
    /\ calls[Before + 1].args = <<PyInt(-7)>>
    /\ calls[Before + 2].args = <<PyStr(<<233, 39>>)>>
    /\ Inputs(db) = << <<40, 45, 55, 44, 41>>, <<40, 34, 195, 169, 39, 34, 44, 41>> >>
    /\ Outputs(db) = << <<117, 50>>, <<117, 49>> >>

\* C3: when concurrent calls of store have all completed, entry j of the
\* inputs log and entry j of the outputs log were appended by the same call.
C3_PairedByCall ==
    (InFlight = {} /\ faults = 0) =>
        \A j \in 1..Len(inBy) : j <= Len(outBy) /\ inBy[j] = outBy[j]

\* C4: get on the key store(v) returned gives the bytes v was sent as;
\* get_int gives back a stored int and get_str a stored str.
C4_RoundTrip ==
    \A i \in Cur :
        (calls[i].key # 0 /\ res.key = KeyText(calls[i].key)) =>
            LET v == calls[i].args[1] IN
            /\ res.op = "get" => res.out = PyBytes(Encode(v))
            /\ (res.op = "get" /\ v.kind = "bytes") => res.out = v
            /\ (res.op = "get_int" /\ v.kind = "int") => res.out = v
            /\ (res.op = "get_str" /\ v.kind = "str") => res.out = v

C4_Witness ==
    \E i \in Cur :
        /\ calls[i].pc = "returned"
        /\ calls[i].args = <<PyInt(-7)>>
        /\ res = [op |-> "get_int", key |-> KeyText(calls[i].key), out |-> PyInt(-7)]
        /\ db[res.key].val = <<45, 55>>

\* C5: no two store calls draw the same key, equal content or not, and
\* every key drawn since the last construction still holds the bytes it
\* was stored with.
C5_FreshKeysKeepValues ==
    /\ \A i, j \in 1..Len(calls) :
          (i # j /\ calls[i].key # 0) => calls[i].key # calls[j].key
    /\ \A i \in Cur :
          calls[i].key # 0 =>
              RedisGet(db, KeyText(calls[i].key)) = PyBytes(Encode(calls[i].args[1]))

C5_Witness ==
    \E i, j \in Cur :
        /\ i < j
        /\ calls[i].pc = "returned"
        /\ calls[j].pc = "returned"
        /\ calls[i].args = calls[j].args
        /\ calls[i].key # calls[j].key
        /\ db[KeyText(calls[i].key)] = db[KeyText(calls[j].key)]

\* C6: the counter is incremented before the wrapped method runs, and when
\* the method fails the counter stays one above what the call found while
\* neither log has grown.
C6_CountedBeforeNoRollback ==
    (Len(calls) > 0 /\ Last.epoch = epoch) =>
        /\ Last.pc = "set" => Counter(db) = Last.cnt0 + 1
        /\ (Last.pc = "raised" /\ Last.at = "set") =>
              /\ Counter(db) = Last.cnt0 + 1
              /\ Len(Inputs(db)) = Last.in0
              /\ Len(Outputs(db)) = Last.out0

C6_Witness ==
    /\ Len(calls) > 1
    /\ Last.epoch = epoch
    /\ Last.pc = "raised"
    /\ Last.at = "set"
    /\ Last.cnt0 = 1
    /\ db[QualName].val = <<50>>
    /\ Len(Inputs(db)) = 1
    /\ Len(Outputs(db)) = 1

\* C7: whenever no call is in flight the two logs are equally long: a call
\* appends to both or to neither, also when it fails.
C7_BothOrNeither == InFlight = {} => Len(Inputs(db)) = Len(Outputs(db))

\* C8: when an append to a history log fails the call raises, and the value
\* is in the database under the key drawn and the counter has counted the
\* call; a call returns only after both its appends.
C8_PartialSuccess ==
    /\ (Len(calls) > 0 /\ Last.epoch = epoch /\ Last.pc = "raised"
            /\ Last.at \in {"inputs", "outputs"}) =>
          /\ Last.key # 0
          /\ RedisGet(db, KeyText(Last.key)) = PyBytes(Encode(Last.args[1]))
          /\ Counter(db) = Last.cnt0 + 1
    /\ \A i \in Cur :
          calls[i].pc = "returned" => i \in Appenders(inBy) /\ i \in Appenders(outBy)

C8_Witness ==
    /\ Len(calls) > 1
    /\ Last.epoch = epoch
    /\ Last.pc = "raised"
    /\ Last.at = "inputs"
    /\ Last.args = <<PyFloat(15)>>
    /\ db[KeyText(Last.key)].val = <<49, 46, 53>>
    /\ db[QualName].val = <<50>>
    /\ Len(Inputs(db)) = 1

\* C9: constructing a Cache empties the database: until the next store call
\* the counter is absent and both logs are empty, and no key drawn before
\* the construction, under whichever Cache, is found again.
C9_ConstructClears ==
    /\ Cur = {} => DOMAIN db = {}
    /\ \A i \in 1..Len(calls) :
          (calls[i].epoch < epoch /\ calls[i].key # 0) =>
              /\ RedisGet(db, KeyText(calls[i].key)) = PyNone
              /\ (res.op = "get" /\ res.key = KeyText(calls[i].key)) => res.out = PyNone

C9_Witness ==
    /\ epoch = 3
    /\ Cur = {}
    /\ Counter(db) = 0
    /\ Inputs(db) = <<>>
    /\ Outputs(db) = <<>>
    /\ \E i, j \in 1..Len(calls) :
          /\ calls[i].epoch = 1
          /\ calls[j].epoch = 2
          /\ calls[i].pc = "returned"
          /\ calls[j].pc = "returned"
          /\ res = [op |-> "get", key |-> KeyText(calls[i].key), out |-> PyNone]

\* The keys store returned that are still in the database.
LiveKeys == {KeyText(calls[i].key) : i \in {j \in Cur : calls[j].key # 0}}

\* C10 as claimed: get, get_str and get_int on any key store did not issue,
\* or that was cleared, give None.
C10_NeverIssuedIsNone ==
    (res.op # "none" /\ res.key \notin LiveKeys) => res.out = PyNone

\* C10: get, get_str and get_int on a key the database does not hold give
\* None, and do not raise.
C10_AbsentIsNone ==
    (res.op # "none" /\ res.key \notin DOMAIN db) => res.out = PyNone

C10_Witness ==
    /\ epoch = 2
    /\ Cur # {}
    /\ AllReturned
    /\ res.op = "get_str"
    /\ res.key \notin DOMAIN db
    /\ \E i \in 1..Len(calls) : calls[i].epoch = 1 /\ res.key = KeyText(calls[i].key)
    /\ res.out = PyNone

\* C11: a call of get, get_str or get_int, on a key present or absent,
\* leaves the counter, both logs and every stored value as they were.
C11_RetrievalLeavesDb ==
    [][(res'.op \in {"get", "get_str", "get_int"} /\ res' # res) => db' = db]_vars

C11_Witness ==
    /\ res.op = "get"
    /\ res.key \in DOMAIN db
    /\ res.out.kind = "bytes"
    /\ Counter(db) = 2
    /\ Len(Inputs(db)) = 2
    /\ Len(Outputs(db)) = 2

\* What replay printed, when it printed at all.
Replayed == res.op = "replay" /\ res.out.kind = "printed"

\* The header counts the inputs log and min(len(inputs), len(outputs)) lines
\* follow, line i made of entry i of each log.
ReplayShape ==
    Replayed =>
        LET n == Min(Len(Inputs(db)), Len(Outputs(db))) IN
        /\ Len(res.out.s) = 1 + n
        /\ res.out.s[1] = QualName \o WasCalled \o Digits(Len(Inputs(db))) \o Times
        /\ \A i \in 1..n :
              res.out.s[i + 1] =
                  QualName \o OpenStar \o Utf8Decode(Inputs(db)[i]) \o Arrow
                      \o Utf8Decode(Outputs(db)[i])

\* store('foo') returned k1, then store(b'bar') returned k2, then replay.
FooBarReplayed ==
    /\ Replayed
    /\ Cardinality(Cur) = 2
    /\ AllReturned
    /\ calls[Before + 1].args = <<PyStr(<<102, 111, 111>>)>>
    /\ calls[Before + 2].args = <<PyBytes(<<98, 97, 114>>)>>

\* "Cache.store(*" \o text \o ") -> " \o the key of the j-th call.
ScenarioLine(text, j) ==
    QualName \o OpenStar \o text \o Arrow \o KeyText(calls[Before + j].key)

\* C12 as claimed: the header counts the inputs log, min(len(inputs),
\* len(outputs)) lines follow in log order, and after store('foo') -> k1 and
\* store(b'bar') -> k2 the lines pair ('foo',) with k1 and ('bar',) with k2.
C12_ReplayPairsFooBar ==
    /\ ReplayShape
    /\ FooBarReplayed =>
          /\ res.out.s[1] = QualName \o WasCalled \o <<50>> \o Times
          /\ res.out.s[2] = ScenarioLine(<<40, 39, 102, 111, 111, 39, 44, 41>>, 1)
          /\ res.out.s[3] = ScenarioLine(<<40, 39, 98, 97, 114, 39, 44, 41>>, 2)

\* C12: the header counts the inputs log, min(len(inputs), len(outputs))
\* lines follow in log order, and after store('foo') -> k1 and
\* store(b'bar') -> k2 the lines pair ('foo',) with k1 and (b'bar',) with k2.
C12_ReplayPairsFooBytesBar ==
    /\ ReplayShape
    /\ FooBarReplayed =>
          /\ res.out.s[1] = QualName \o WasCalled \o <<50>> \o Times
          /\ res.out.s[2] = ScenarioLine(<<40, 39, 102, 111, 111, 39, 44, 41>>, 1)
          /\ res.out.s[3] = ScenarioLine(<<40, 98, 39, 98, 97, 114, 39, 44, 41>>, 2)

\* "Cache.store was called 2 times:", "Cache.store(*('foo',)) -> u1",
\* "Cache.store(*(b'bar',)) -> u2".
C12_Witness ==
    /\ FooBarReplayed
    /\ res.out.s =
          << <<67, 97, 99, 104, 101, 46, 115, 116, 111, 114, 101, 32, 119, 97, 115,
               32, 99, 97, 108, 108, 101, 100, 32, 50, 32, 116, 105, 109, 101, 115, 58>>,
             <<67, 97, 99, 104, 101, 46, 115, 116, 111, 114, 101, 40, 42, 40, 39, 102,
               111, 111, 39, 44, 41, 41, 32, 45, 62, 32, 117, 49>>,
             <<67, 97, 99, 104, 101, 46, 115, 116, 111, 114, 101, 40, 42, 40, 98, 39,
               98, 97, 114, 39, 44, 41, 41, 32, 45, 62, 32, 117, 50>> >>

\* C13: replay changes nothing in the database, and a replay that follows a
\* replay, with no store call and no construction between them, prints what
\* the first one printed.
C13_ReplayReadOnly ==
    [][res'.op = "replay" =>
          /\ db' = db
          /\ (Replayed /\ res'.out.kind = "printed") => res'.out = res.out]_vars

C13_Witness ==
    /\ Replayed
    /\ Len(res.out.s) = 2
    /\ Counter(db) = 2
    /\ Len(Inputs(db)) = 2
    /\ Len(Outputs(db)) = 1
    /\ Cardinality(DOMAIN db) = 5

IsPrefix(a, b) == Len(a) <= Len(b) /\ SubSeq(b, 1, Len(a)) = a

\* C14: every step other than a Cache construction leaves the counter where
\* it was or one higher, one higher when it is an invocation whose INCR was
\* served, and leaves each log with its former content as a prefix.
C14_GrowOnly ==
    [][epoch' = epoch =>
          /\ Counter(db') >= Counter(db)
          /\ Counter(db') <= Counter(db) + 1
          /\ (Len(calls') > Len(calls) /\ calls'[Len(calls')].pc = "set") =>
                Counter(db') = Counter(db) + 1
          /\ Len(calls') = Len(calls) => Counter(db') = Counter(db)
          /\ IsPrefix(Inputs(db), Inputs(db'))
          /\ IsPrefix(Outputs(db), Outputs(db'))]_vars

C14_Witness ==
    /\ epoch = 3
    /\ Len(calls) = 2
    /\ calls[1].epoch = 2
    /\ calls[1].pc = "returned"
    /\ calls[2].pc = "returned"
    /\ calls[1].args # calls[2].args
    /\ Counter(db) = 1
    /\ Len(Inputs(db)) = 1
    /\ Len(Outputs(db)) = 1

Over(c) == c.pc \in {"returned", "raised"}
LastAsInput == CallOf(Last.self, Last.data, Last.args = <<>>, Last.key, Last.at)
LastReturn == IF Last.pc = "returned" THEN Last.key ELSE 0

\* C16: count_calls over call_history, as Cache.store has them, and
\* call_history over count_calls give the same result and leave the same
\* database, for every receiver, value and key and wherever the connection
\* is lost; and the steps of a call leave what the decorated method gives.
C16_StackingOrder ==
    /\ \A self \in Receivers, v \in Values, kw \in BOOLEAN, f \in FaultPoints :
          \A k \in FreshKeys :
              DecoratedStore(db, CallOf(self, v, kw, k, f))
                  = SwappedStore(db, CallOf(self, v, kw, k, f))
    /\ (Len(calls) > 0 /\ Over(Last)) =>
          /\ DecoratedStore(Last.db0, LastAsInput) = Gives(db, LastReturn, Last.at)
          /\ SwappedStore(Last.db0, LastAsInput) = Gives(db, LastReturn, Last.at)

C16_Witness ==
    /\ Len(calls) = 2
    /\ calls[1].pc = "returned"
    /\ Recognized(Last.self)
    /\ Last.pc = "raised"
    /\ Last.at = "outputs"
    /\ SwappedStore(Last.db0, LastAsInput).at = "outputs"
    /\ Counter(db) = 2
    /\ Len(Inputs(db)) = 2
    /\ Len(Outputs(db)) = 1

\* ---------------------------------------------------------------- C17
\* A construction fell into the flight of the last call.
ClearedInFlight == Len(calls) > 0 /\ Last.pc = "returned" /\ Last.epoch < epoch
LastKeyLost == CacheGet(db, KeyText(Last.key)) = PyNone
LoggedUncounted ==
    /\ Counter(db) = 0
    /\ Len(Outputs(db)) > 0
    /\ Outputs(db)[Len(Outputs(db))] = Utf8Encode(KeyText(Last.key))

\* C17: constructing a Cache while a store call of another Cache on the same
\* database is in flight is unsafe. The call still returns its key; the
\* outputs log then holds the key while the counter is zero, and unless the
\* clear fell before the SET (when the inputs log holds the call's entry too)
\* get of the returned key is absent. A call no construction fell into keeps
\* its value and its count.
C17_ConstructInFlightUnsafe ==
    /\ ClearedInFlight =>
          /\ LoggedUncounted
          /\ LastKeyLost \/ (Len(Inputs(db)) > 0 /\ CacheGet(db, KeyText(Last.key)) = PyBytes(Encode(Last.data)))
    /\ \A i \in Cur :
          calls[i].pc = "returned" =>
              /\ CacheGet(db, KeyText(calls[i].key)) = PyBytes(Encode(calls[i].data))
              /\ Counter(db) >= 1

\* The clear fell between the SET and the appends: store returned k, get(k)
\* gave None, and both logs hold the call's entry beside a zero counter.
C17_Witness ==
    /\ ClearedInFlight
    /\ res = [op |-> "get", key |-> KeyText(Last.key), out |-> PyNone]
    /\ LastKeyLost
    /\ LoggedUncounted
    /\ Len(Inputs(db)) > 0

\* ---------------------------------------------------------------- C18
\* What GET holds for the key of the last retrieval.
RawOfRes ==
    IF res.key \notin DOMAIN db THEN PyNone
    ELSE IF db[res.key].type = "string" THEN PyBytes(db[res.key].val)
    ELSE Raised
\* The call that stored under the key of the last retrieval, if any.
StoredBy(key) == {i \in 1..Len(calls) : calls[i].key # 0 /\ KeyText(calls[i].key) = key}

\* C18: get(key) without a function returns the raw value; get(key, fn)
\* returns fn of the raw value. For an absent key fn is called with None and
\* its result or failure is what get yields: int raises, str gives 'None',
\* the decoding lambda raises. For the key of a stored value, int gives the
\* integer the bytes spell, decode gives back a stored text, str gives the
\* repr of the bytes.
C18_FnGetsRawValue ==
    /\ res.op = "get" => res.out = RawOfRes
    /\ \A fn \in Fns :
          res.op = GetOp(fn) =>
              /\ RawOfRes.kind = "raise" => res.out = Raised
              /\ RawOfRes.kind = "none" =>
                    res.out = CASE fn = "int" -> Raised
                                [] fn = "str" -> PyStr(<<78, 111, 110, 101>>)
                                [] fn = "decode" -> Raised
              /\ RawOfRes.kind = "bytes" =>
                    /\ fn = "str" => res.out = PyStr(Repr(RawOfRes))
                    /\ \A i \in StoredBy(res.key) :
                          /\ (fn = "decode" /\ calls[i].data.kind = "str")
                                => res.out = calls[i].data
                          /\ (fn = "int" /\ calls[i].data.kind = "int")
                                => res.out = calls[i].data
                          /\ (fn = "int" /\ calls[i].data.kind \in {"str", "float"})
                                => res.out = Raised

\* get(key, str) of a key nothing was stored under returned the text 'None'.
C18_Witness ==
    /\ res.op = "get(str)"
    /\ res.key = NoKey
    /\ res.key \notin DOMAIN db
    /\ res.out = PyStr(<<78, 111, 110, 101>>)
    /\ \E i \in 1..Len(calls) : calls[i].pc = "returned"

\* ---------------------------------------------------------------- C19
\* C19: in every state of concurrent store calls on one live Cache, the
\* counter is at least the length of the inputs log, which is at least the
\* length of the outputs log; the three are equal whenever no call is in
\* flight and no call has failed.
C19_CounterInputsOutputs ==
    /\ Counter(db) >= Len(Inputs(db))
    /\ Len(Inputs(db)) >= Len(Outputs(db))
    /\ (InFlight = {} /\ \A i \in 1..Len(calls) : calls[i].pc # "raised") =>
          /\ Counter(db) = Len(Inputs(db))
          /\ Len(Inputs(db)) = Len(Outputs(db))

\* Two calls in flight, one past its inputs append and one before its SET:
\* the counter is 2, the inputs log holds 1 entry and the outputs log none.
C19_Witness ==
    /\ Cardinality(InFlight) = 2
    /\ Counter(db) = 2
    /\ Len(Inputs(db)) = 1
    /\ Len(Outputs(db)) = 0
    /\ \E i, j \in InFlight : calls[i].pc = "outputs" /\ calls[j].pc = "set"

\* ---------------------------------------------------------------- C20
\* The call passed its value as data=v.
ByKeyword(c) == c.args = <<>>

\* C20: a store call that passes its value as a keyword argument persists
\* the value, is counted, and appends one entry to each log; its inputs
\* entry is '()', the text of the empty tuple, whatever the value.
C20_KeywordLogsEmptyTuple ==
    (Len(calls) > 0 /\ Last.pc = "returned" /\ ByKeyword(Last)) =>
        /\ RedisGet(db, KeyText(Last.key)) = PyBytes(Encode(Last.data))
        /\ Counter(db) = Last.cnt0 + 1
        /\ Len(Inputs(db)) = Last.in0 + 1
        /\ Len(Outputs(db)) = Last.out0 + 1
        /\ Inputs(db)[Len(Inputs(db))] = <<40, 41>>
        /\ Outputs(db)[Len(Outputs(db))] = Utf8Encode(KeyText(Last.key))

\* store(data=-7) and store(data=1.5) both returned: two values are stored,
\* the counter is 2, and the inputs log holds '()' twice.
C20_Witness ==
    /\ Len(calls) = 2
    /\ AllReturned
    /\ ByKeyword(calls[1]) /\ calls[1].data = PyInt(-7)
    /\ ByKeyword(calls[2]) /\ calls[2].data = PyFloat(15)
    /\ Counter(db) = 2
    /\ Inputs(db) = << <<40, 41>>, <<40, 41>> >>
    /\ RedisGet(db, KeyText(calls[1].key)) # RedisGet(db, KeyText(calls[2].key))

====
